---- MODULE Spec2Model ----
(***************************************************************************)
(* Device matrices of gpuarray-rs (src/src/cl_matrix.rs): ClMatrix with    *)
(* its optional producer event, the twelve kernel operations, get and set, *)
(* and the device queue they enqueue on.                                   *)
(*                                                                         *)
(* The queue, the kernels and the host Matrix are not part of              *)
(* cl_matrix.rs.  They are modelled from the design document: one queue    *)
(* that issues kernels in submission order, a kernel being started only    *)
(* when the events of its wait-list are complete, and completion being     *)
(* notified asynchronously and in any order.                               *)
(***************************************************************************)
EXTENDS Integers, Sequences, FiniteSets, TLC

\* ------------------------------------------------------------- bounds
\* Matrices the host may construct in one run.
MaxMats == 2
\* Kernels the host may enqueue in one run.
MaxKernels == 2
\* Calls of set in one run.
MaxSets == 1
\* Calls of get in one run.
MaxGets == 1

\* ---------------------------------------------------- inputs (bounded)
\* Host matrices offered to from_matrix and set.
HostPool ==
    { [rows |-> 1, columns |-> 2, buffer |-> <<1, 2>>],
      [rows |-> 1, columns |-> 1, buffer |-> <<3>>] }
\* Shapes offered to new.
NewShapes == { <<2, 1>> }
\* What a read of memory nobody wrote may yield.
JunkVals == { 0, 7 }
\* Host matrices of one shape.
DataPool ==
    { [rows |-> 1, columns |-> 2, buffer |-> <<1, 2>>],
      [rows |-> 1, columns |-> 2, buffer |-> <<3, 1>>] }
\* Thresholds offered to max, min, dmax, dmin.
Thresholds == { 2 }

NoMatrix == [rows |-> 0, columns |-> 0, buffer |-> <<>>]

VARIABLES
    mats,    \* ClMatrix objects: <<[rows, columns, event]>>, event 0 is None
    buf,     \* device contents of each matrix's buffer
    eager,   \* history: the contents under synchronous evaluation of each call
    queue,   \* every kernel enqueued so far; a kernel's event is its index
    host,    \* "idle", "get" (blocked inside get) or "panicked"
    call,    \* history: the last call the host made
    ret,     \* the Matrix the last get returned
    nsets,   \* calls of set so far
    ngets    \* calls of get so far

vars == <<mats, buf, eager, queue, host, call, ret, nsets, ngets>>

Created == 1..Len(mats)
NoCall == [op |-> "none", self |-> 0, other |-> 0, out |-> 0,
           token |-> 0, prev |-> 0, status |-> "none", pend |-> FALSE]

\* ------------------------------------------------------- kernel programs
ElementwiseOps == {"add", "sub", "multiply", "copy_to", "max", "min", "dmax", "dmin"}
BinaryOps == {"add", "sub", "multiply", "dot", "mse", "dmse"}

\* A read at 0-based index i of buffer v; outside the buffer it yields j.
Rd(v, i, j) == IF i + 1 \in 1..Len(v) THEN v[i + 1] ELSE j

\* What one work item of an elementwise kernel stores.
Scalar(op, x, y, t) ==
    CASE op = "add"      -> x + y
      [] op = "sub"      -> x - y
      [] op = "multiply" -> x * y
      [] op = "copy_to"  -> x
      [] op = "max"      -> IF x > t THEN x ELSE t
      [] op = "min"      -> IF x < t THEN x ELSE t
      [] op = "dmax"     -> IF x > t THEN 1 ELSE 0
      [] op = "dmin"     -> IF x < t THEN 1 ELSE 0

RECURSIVE DotSum(_, _, _, _, _, _, _, _)
\* sum over k < n of a[i*cols + k] * b[k*ocols + jc]
DotSum(a, b, i, jc, cols, ocols, n, j) ==
    IF n = 0 THEN 0
    ELSE DotSum(a, b, i, jc, cols, ocols, n - 1, j)
         + Rd(a, i * cols + (n - 1), j) * Rd(b, (n - 1) * ocols + jc, j)

RECURSIVE ColSum(_, _, _, _, _, _, _)
\* sum over i < n of d(i)^2 (sq) or d(i), d(i) = a[i*cols + jc] - b[i*cols + jc]
ColSum(a, b, jc, cols, n, sq, j) ==
    IF n = 0 THEN 0
    ELSE LET d == Rd(a, (n - 1) * cols + jc, j) - Rd(b, (n - 1) * cols + jc, j)
         IN  ColSum(a, b, jc, cols, n - 1, sq, j) + (IF sq THEN d * d ELSE d)

\* The kernel's work size covers output cell p (0-based).
Covers(k, p) ==
    CASE k.op \in ElementwiseOps -> p < k.ws[1]
      [] k.op = "transpose"      -> p < k.ws[1] * k.ws[2]
      [] k.op = "dot"            -> k.ocols > 0 /\ p < k.ws[1] * k.ws[2]
      [] OTHER                   -> p < k.ws[1]

\* The value the kernel stores in output cell p (0-based), reading a and b.
Cell(k, a, b, p) ==
    CASE k.op \in ElementwiseOps ->
            Scalar(k.op, Rd(a, p, k.oob), Rd(b, p, k.oob), k.thr)
      [] k.op = "transpose" ->
            Rd(a, (p % k.rows) * k.cols + (p \div k.rows), k.oob)
      [] k.op = "dot" ->
            DotSum(a, b, p \div k.ocols, p % k.ocols, k.cols, k.ocols, k.cols, k.oob)
      [] k.op = "mse" ->
            ColSum(a, b, p, k.cols, k.rows, TRUE, k.oob)
      [] OTHER ->
            ColSum(a, b, p, k.cols, k.rows, FALSE, k.oob)

\* A kernel that is not elementwise and whose output is one of its inputs: its
\* work items read cells other work items write, so those reads are arbitrary.
Racy(k, m) == k.op \notin ElementwiseOps /\ m = k.out

\* The output buffer after kernel k ran on buffers b (one per matrix).  Cells
\* the work size does not cover keep their contents; stores past the end of
\* the output are outside the model.
KernelOut(k, b) ==
    LET a == IF Racy(k, k.self) THEN <<>> ELSE b[k.self]
        x == IF k.other = 0 \/ Racy(k, k.other) THEN <<>> ELSE b[k.other]
        o == b[k.out]
    IN  [p \in 1..Len(o) |-> IF Covers(k, p - 1) THEN Cell(k, a, x, p - 1) ELSE o[p]]

\* Cells of the second input the kernel reads.
Needs(op, rows, cols, ocols) ==
    CASE op \in ElementwiseOps -> rows * cols
      [] op = "dot"            -> cols * ocols
      [] OTHER                 -> rows * cols

\* What the arbitrary reads of a kernel may yield: a choice only when it has some.
OobChoices(op, s, x, o) ==
    IF \/ op \in BinaryOps /\ Len(buf[x]) < Needs(op, mats[s].rows, mats[s].columns, mats[x].columns)
       \/ op \notin ElementwiseOps /\ o \in {s, x}
    THEN JunkVals ELSE {0}

\* The event of kernel e is complete.
IsComplete(e) == queue[e].st = "complete"

\* ---------------------------------------------------------- ClMatrix
\* The struct a constructor returns: no producer event yet.
ClMatrix(rows, columns) == [rows |-> rows, columns |-> columns, event |-> 0]

\* get_event: the matrix's producer, 0 for None.  A producer that is Some is
\* returned as a Ref, which keeps the RefCell borrowed while it lives.
GetEvent(m) == mats[m].event

\* Mutant: set_event keeps a producer that is already there.
SetEventKeepsEarlier(m, e) ==
    IF mats[m].event = 0 THEN [mats EXCEPT ![m].event = e] ELSE mats

\* Mutant: set_event stores the event in every matrix.
SetEventInEveryMatrix(m, e) == [i \in DOMAIN mats |-> [mats[i] EXCEPT !.event = e]]

\* set_event: the RefCell's content is replaced.
SetEvent(m, e) == [mats EXCEPT ![m].event = e]

\* The wait-list of a one-input operation: &*self.get_event().unwrap().
EventList1(s) == {GetEvent(s)} \ {0}

\* Mutant: the wait-list of a two-input operation leaves out other's producer.
EventList2SelfOnly(s, x) == {GetEvent(s)} \ {0}

\* Mutant: the wait-list also holds the event of the kernel being enqueued.
EventList2WithOwnEvent(s, x) == ({GetEvent(s), GetEvent(x)} \ {0}) \cup {Len(queue) + 1}

\* The wait-list of a two-input operation: [self.get_event(), other.get_event()];
\* a None entry stands for no event.
EventList2(s, x) == {GetEvent(s), GetEvent(x)} \ {0}

\* Refs alive when set_event runs.  The Ref of a one-input operation is a
\* temporary of the statement that also calls set_event.
StatementRefs(s) == {s}
\* event_list declared in the function body (sub, multiply) lives to its end.
FnScopedRefs(s, x) == {m \in {s, x} : GetEvent(m) # 0}
\* Mutant: the inner block is missing, as in sub and multiply.
BlockScopeMissing(s, x) == {m \in {s, x} : GetEvent(m) # 0}

\* event_list declared in an inner block (add, dot, mse, dmse) is dropped
\* before set_event runs.
BlockScopedRefs(s, x) == {}

\* Mutant: the enqueue returns only once the wait-list is complete.
EnqueueWaits(wait) == \A e \in wait : IsComplete(e)

\* enqueue_async_kernel returns once the kernel is in the queue, whatever the
\* state of the events in its wait-list.
EnqueueReady(wait) == TRUE

\* Mutants: an operation creates the kernel of another one.
AddKernelIsSub == "sub"
MultiplyKernelIsAdd == "add"

\* Kernel names: format!("vector_{op}_{}", T::name()).
AddKernel == "add"
MultiplyKernel == "multiply"
CopyToKernel == "copy_to"

\* The kernel program each operation creates: the program named after it.
KernelOf(fn) ==
    CASE fn = "add"      -> AddKernel
      [] fn = "multiply" -> MultiplyKernel
      [] fn = "copy_to"  -> CopyToKernel
      [] OTHER           -> fn

\* Mutant: operands whose buffers differ in length are refused.
ShapesChecked(s, x, o) ==
    /\ Len(buf[o]) = Len(buf[s])
    /\ x # 0 => Len(buf[x]) = Len(buf[s])

\* No operation compares the shapes of its operands: all are accepted.
ShapesAccepted(s, x, o) == TRUE

\* The call fails before anything is enqueued: unwrap of a None producer.
PanicBefore(op, s, x, o) ==
    /\ host' = "panicked"
    /\ call' = [op |-> op, self |-> s, other |-> x, out |-> o,
                token |-> 0, prev |-> GetEvent(o), status |-> "panicked",
                pend |-> FALSE]
    /\ UNCHANGED <<mats, buf, eager, queue, ret, nsets, ngets>>

\* The kernel is enqueued with its wait-list and work size, and set_event
\* stores its event in the output, unless the output's RefCell is still
\* borrowed: then borrow_mut panics, after the kernel was enqueued.
Dispatch(op, s, x, o, t, ws, wait, held, j) ==
    LET tok == Len(queue) + 1
        k == [fn |-> op, op |-> KernelOf(op), self |-> s, other |-> x, out |-> o, thr |-> t,
              rows |-> mats[s].rows, cols |-> mats[s].columns,
              ocols |-> IF x = 0 THEN 0 ELSE mats[x].columns,
              ws |-> ws, wait |-> wait,
              inEv |-> {mats[m].event : m \in {s, x} \ {0}} \ {0},
              st |-> "queued", oob |-> j,
              ea |-> eager[s], eb |-> IF x = 0 THEN <<>> ELSE eager[x],
              res |-> <<>>, clobbered |-> FALSE]
        c == [op |-> op, self |-> s, other |-> x, out |-> o,
              token |-> tok, prev |-> GetEvent(o), status |-> "returned",
              pend |-> FALSE]
    IN  /\ EnqueueReady(wait)
        /\ queue' = Append(queue, k)
        /\ eager' = [eager EXCEPT ![o] = KernelOut(k, eager)]
        /\ IF o \in held
           THEN /\ mats' = mats
                /\ host' = "panicked"
                /\ call' = [c EXCEPT !.status = "panicked"]
           ELSE /\ mats' = SetEvent(o, tok)
                /\ host' = host
                /\ call' = c
        /\ UNCHANGED <<buf, ret, nsets, ngets>>

\* An operation of one input: self's producer is unwrapped.
Unary(op, s, o, t, ws) ==
    /\ host = "idle"
    /\ Len(queue) < MaxKernels
    /\ IF GetEvent(s) = 0 \/ ~ShapesAccepted(s, 0, o)
       THEN PanicBefore(op, s, 0, o)
       ELSE \E j \in OobChoices(op, s, 0, o) :
                Dispatch(op, s, 0, o, t, ws, EventList1(s), StatementRefs(s), j)

\* An operation of two inputs.
Binary(op, s, x, o, ws, held) ==
    /\ host = "idle"
    /\ Len(queue) < MaxKernels
    /\ IF ~ShapesAccepted(s, x, o)
       THEN PanicBefore(op, s, x, o)
       ELSE \E j \in OobChoices(op, s, x, o) :
                Dispatch(op, s, x, o, 0, ws, EventList2(s, x), held, j)

\* ------------------------------------------------------- constructors
\* new: a buffer of rows*columns cells nobody wrote (they hold j) and no
\* producer.  The mode only selects the buffer's access flags and is not kept.
Allocated(rows, columns, j) ==
    [m |-> ClMatrix(rows, columns), b |-> [p \in 1..(rows * columns) |-> j]]

\* from_matrix: the shape of the host matrix, its contents written to the new
\* buffer, and no producer.
Uploaded(matrix) ==
    [m |-> ClMatrix(matrix.rows, matrix.columns), b |-> matrix.buffer]

New ==
    /\ host = "idle"
    /\ Len(mats) < MaxMats
    /\ \E sh \in NewShapes : \E j \in JunkVals :
        /\ mats' = Append(mats, Allocated(sh[1], sh[2], j).m)
        /\ buf' = Append(buf, Allocated(sh[1], sh[2], j).b)
        /\ eager' = Append(eager, Allocated(sh[1], sh[2], j).b)
    /\ call' = [NoCall EXCEPT !.op = "new", !.out = Len(mats) + 1, !.status = "returned"]
    /\ UNCHANGED <<queue, host, ret, nsets, ngets>>

FromMatrix ==
    /\ host = "idle"
    /\ Len(mats) < MaxMats
    /\ \E matrix \in HostPool :
        /\ mats' = Append(mats, Uploaded(matrix).m)
        /\ buf' = Append(buf, Uploaded(matrix).b)
        /\ eager' = Append(eager, Uploaded(matrix).b)
    /\ call' = [NoCall EXCEPT !.op = "from_matrix", !.out = Len(mats) + 1,
                              !.status = "returned"]
    /\ UNCHANGED <<queue, host, ret, nsets, ngets>>

\* ------------------------------------------------------------ get, set
\* Mutant: the read is made without the event.
GetDoesNotWait(e) == TRUE

\* queue.get(&buffer, event) reads once the event it is given is complete.
GetReady(e) == IsComplete(e)

\* get, up to the blocking read: the producer is unwrapped first.
Get ==
    /\ host = "idle"
    /\ ngets < MaxGets
    /\ ngets' = ngets + 1
    /\ \E m \in Created :
        IF GetEvent(m) = 0
        THEN /\ host' = "panicked"
             /\ call' = [NoCall EXCEPT !.op = "get", !.self = m, !.status = "panicked"]
        ELSE /\ host' = "get"
             /\ call' = [NoCall EXCEPT !.op = "get", !.self = m,
                                       !.token = GetEvent(m), !.status = "waiting"]
    /\ UNCHANGED <<mats, buf, eager, queue, ret, nsets>>

\* The blocking read returns and get builds the Matrix.
GetReturn ==
    /\ host = "get"
    /\ GetReady(call.token)
    /\ ret' = [rows |-> mats[call.self].rows, columns |-> mats[call.self].columns,
               buffer |-> buf[call.self]]
    /\ host' = "idle"
    /\ call' = [call EXCEPT !.status = "returned"]
    /\ UNCHANGED <<mats, buf, eager, queue, nsets, ngets>>

\* Mutant: the write is given the matrix's producer as its wait-list.
SetWaitsOnProducer(m) == {GetEvent(m)} \ {0}

\* The wait-list set gives the write: (), no event.
SetWaitList(m) == {}

\* set: a write of the host matrix; the producer is neither read nor written.
\* History: the kernels already enqueued with this output are marked
\* clobbered, and the call records the producer and whether its kernel had
\* still to run.
SetCall(m, matrix) ==
    /\ host = "idle"
    /\ nsets < MaxSets
    /\ \A e \in SetWaitList(m) : IsComplete(e)
    /\ buf' = [buf EXCEPT ![m] = matrix.buffer]
    /\ eager' = [eager EXCEPT ![m] = matrix.buffer]
    /\ queue' = [i \in 1..Len(queue) |->
                    IF queue[i].out = m THEN [queue[i] EXCEPT !.clobbered = TRUE]
                    ELSE queue[i]]
    /\ call' = [NoCall EXCEPT !.op = "set", !.self = m, !.status = "returned",
                              !.prev = GetEvent(m),
                              !.pend = (GetEvent(m) # 0 /\ queue[GetEvent(m)].st = "queued")]
    /\ nsets' = nsets + 1
    /\ UNCHANGED <<mats, host, ret, ngets>>

\* Host matrices of the buffer's length are offered.
SetData(m) == {matrix \in HostPool \cup DataPool : Len(matrix.buffer) = Len(buf[m])}

Set == \E m \in Created : \E matrix \in SetData(m) : SetCall(m, matrix)

\* ----------------------------------------------------------- operations
\* Mutant: the elementwise work size is the length of the output's buffer.
WorkSizeOfOutput(s, o) == <<Len(buf[o])>>

\* The work size of the elementwise operations: self.buffer.len().
ElementwiseWorkSize(s, o) == <<Len(buf[s])>>

CopyToCall(s, o) == Unary("copy_to", s, o, 0, ElementwiseWorkSize(s, o))
CopyTo == \E s \in Created, o \in Created : CopyToCall(s, o)

AddCall(s, x, o) ==
    Binary("add", s, x, o, ElementwiseWorkSize(s, o), BlockScopedRefs(s, x))
Add == \E s \in Created, x \in Created, o \in Created : AddCall(s, x, o)

SubCall(s, x, o) ==
    Binary("sub", s, x, o, ElementwiseWorkSize(s, o), FnScopedRefs(s, x))
Sub == \E s \in Created, x \in Created, o \in Created : SubCall(s, x, o)

MultiplyCall(s, x, o) ==
    Binary("multiply", s, x, o, ElementwiseWorkSize(s, o), FnScopedRefs(s, x))
Multiply == \E s \in Created, x \in Created, o \in Created : MultiplyCall(s, x, o)

TransposeCall(s, o) ==
    Unary("transpose", s, o, 0, <<mats[s].rows, mats[s].columns>>)
Transpose == \E s \in Created, o \in Created : TransposeCall(s, o)

DotCall(s, x, o) ==
    Binary("dot", s, x, o, <<mats[s].rows, mats[x].columns>>, BlockScopedRefs(s, x))
Dot == \E s \in Created, x \in Created, o \in Created : DotCall(s, x, o)

MaxCall(s, threshold, o) == Unary("max", s, o, threshold, ElementwiseWorkSize(s, o))
Max == \E s \in Created, o \in Created, threshold \in Thresholds : MaxCall(s, threshold, o)

MinCall(s, threshold, o) == Unary("min", s, o, threshold, ElementwiseWorkSize(s, o))
Min == \E s \in Created, o \in Created, threshold \in Thresholds : MinCall(s, threshold, o)

DmaxCall(s, threshold, o) == Unary("dmax", s, o, threshold, ElementwiseWorkSize(s, o))
Dmax == \E s \in Created, o \in Created, threshold \in Thresholds : DmaxCall(s, threshold, o)

DminCall(s, threshold, o) == Unary("dmin", s, o, threshold, ElementwiseWorkSize(s, o))
Dmin == \E s \in Created, o \in Created, threshold \in Thresholds : DminCall(s, threshold, o)

MseCall(s, train, o) ==
    Binary("mse", s, train, o, <<mats[s].columns>>, BlockScopedRefs(s, train))
Mse == \E s \in Created, train \in Created, o \in Created : MseCall(s, train, o)

DmseCall(s, train, o) ==
    Binary("dmse", s, train, o, <<mats[s].columns>>, BlockScopedRefs(s, train))
Dmse == \E s \in Created, train \in Created, o \in Created : DmseCall(s, train, o)

OpNames ==
    {"copy_to", "add", "sub", "multiply", "transpose", "dot",
     "max", "min", "dmax", "dmin", "mse", "dmse"}

\* --------------------------------------------------------------- device
\* The queue starts its oldest kernel not yet run, once the events of the
\* kernel's wait-list are complete; the kernel reads and writes the buffers.
\* A panic unwinds the host's only thread and drops the context with its
\* queue: nothing is observed of the device after it.
RunKernel ==
    \E i \in 1..Len(queue) :
        /\ host # "panicked"
        /\ queue[i].st = "queued"
        /\ \A e \in 1..(i - 1) : queue[e].st # "queued"
        /\ \A e \in queue[i].wait : IsComplete(e)
        /\ LET r == KernelOut(queue[i], buf)
           IN  /\ buf' = [buf EXCEPT ![queue[i].out] = r]
               /\ queue' = [queue EXCEPT ![i].st = "ran", ![i].res = r]
        /\ UNCHANGED <<mats, eager, host, call, ret, nsets, ngets>>

\* The completion of a kernel that ran is notified: its event is complete.
Complete ==
    \E i \in 1..Len(queue) :
        /\ host # "panicked"
        /\ queue[i].st = "ran"
        /\ queue' = [queue EXCEPT ![i].st = "complete"]
        /\ UNCHANGED <<mats, buf, eager, host, call, ret, nsets, ngets>>

\* -------------------------------------------------------- specification
Init ==
    /\ mats = <<>>
    /\ buf = <<>>
    /\ eager = <<>>
    /\ queue = <<>>
    /\ host = "idle"
    /\ call = NoCall
    /\ ret = NoMatrix
    /\ nsets = 0
    /\ ngets = 0

Next ==
    \/ New \/ FromMatrix
    \/ CopyTo \/ Add \/ Sub \/ Multiply \/ Transpose \/ Dot
    \/ Max \/ Min \/ Dmax \/ Dmin \/ Mse \/ Dmse
    \/ RunKernel \/ Complete

Spec == Init /\ [][Next]_vars

\* Upload, compute, download: matrices 1 and 2 uploaded with from_matrix,
\* 3 and 4 allocated with new; add, then get.
HostA == [rows |-> 1, columns |-> 2, buffer |-> <<1, 2>>]
HostB == [rows |-> 1, columns |-> 2, buffer |-> <<3, 1>>]

InitIO ==
    /\ \E j \in JunkVals :
        /\ mats = <<Uploaded(HostA).m, Uploaded(HostB).m,
                    Allocated(1, 2, j).m, Allocated(1, 2, j).m>>
        /\ buf = <<Uploaded(HostA).b, Uploaded(HostB).b,
                   Allocated(1, 2, j).b, Allocated(1, 2, j).b>>
        /\ eager = buf
    /\ queue = <<>>
    /\ host = "idle"
    /\ call = NoCall
    /\ ret = NoMatrix
    /\ nsets = 0
    /\ ngets = 0

NextIO ==
    \/ Get \/ GetReturn
    \/ Add
    \/ RunKernel \/ Complete

SpecIO == InitIO /\ [][NextIO]_vars

\* Chains: from the same four matrices, add reads the uploaded matrices,
\* multiply reads any, and both write a matrix allocated with new.
Inputs == {1, 2}
Outputs == {3, 4}

ChainAdd == \E s \in Inputs, x \in Inputs, o \in Outputs : AddCall(s, x, o)
ChainMultiply == \E s \in Created, x \in Created, o \in Outputs : MultiplyCall(s, x, o)

NextChain ==
    \/ Get \/ GetReturn
    \/ ChainAdd \/ ChainMultiply
    \/ RunKernel \/ Complete

SpecChain == InitIO /\ [][NextChain]_vars

\* Overwriting: matrix 1 uploaded with from_matrix, matrix 2 allocated with
\* new; copy_to and add, get and set.
InitSet ==
    /\ \E a \in DataPool, j \in JunkVals :
        /\ mats = <<Uploaded(a).m, Allocated(1, 2, j).m>>
        /\ buf = <<Uploaded(a).b, Allocated(1, 2, j).b>>
        /\ eager = buf
    /\ queue = <<>>
    /\ host = "idle"
    /\ call = NoCall
    /\ ret = NoMatrix
    /\ nsets = 0
    /\ ngets = 0

NextSet ==
    \/ Get \/ GetReturn \/ Set
    \/ Add \/ CopyTo
    \/ RunKernel \/ Complete

SpecSet == InitSet /\ [][NextSet]_vars

\* Fair device: a kernel that can start does start, a kernel that ran is
\* notified complete, and a read whose event is complete returns.
SpecFair ==
    /\ SpecSet
    /\ WF_vars(RunKernel)
    /\ WF_vars(Complete)
    /\ WF_vars(GetReturn)

\* ================================================================ claims
OpCalled == call.op \in OpNames
GetReturned == call.op = "get" /\ call.status = "returned"

\* C1: a kernel that has begun executing had, complete, every producer event
\* its input matrices held when it was enqueued.
C1_InputsCompleteBeforeRun ==
    \A i \in 1..Len(queue) :
        queue[i].st # "queued" => \A e \in queue[i].inEv : IsComplete(e)

C1_Witness ==
    \E i \in 1..Len(queue) :
        /\ queue[i].st # "queued"
        /\ queue[i].other # 0
        /\ queue[i].inEv # {}

\* C2: after an operation returns, its output's producer is the token of the
\* kernel that operation enqueued (the newest of the queue), whatever producer
\* the output held before.
C2_OutputProducerIsNewToken ==
    (OpCalled /\ call.status = "returned") =>
        /\ call.token = Len(queue)
        /\ queue[call.token].out = call.out
        /\ GetEvent(call.out) = call.token

C2_Witness ==
    /\ OpCalled
    /\ call.status = "returned"
    /\ call.prev # 0
    /\ call.prev # call.token
    /\ GetEvent(call.out) = call.token

\* C8 (as claimed): an operation whose output is one of its inputs returns
\* normally, having enqueued one kernel whose token is the output's producer.
C8_AliasedOutputReturns ==
    (OpCalled /\ call.out \in {call.self, call.other}) =>
        /\ call.status = "returned"
        /\ call.token = Len(queue)
        /\ GetEvent(call.out) = call.token

\* C9: whatever the device has or has not completed, an idle host can make
\* every operation call, and the call is one step that ends with the host idle
\* or panicked, never waiting.
C9_OperationsNeverWait ==
    (host = "idle" /\ Len(queue) < MaxKernels) =>
        \A s \in Created, o \in Created :
            /\ ENABLED CopyToCall(s, o)
            /\ ENABLED TransposeCall(s, o)
            /\ \A t \in Thresholds :
                /\ ENABLED MaxCall(s, t, o)
                /\ ENABLED MinCall(s, t, o)
                /\ ENABLED DmaxCall(s, t, o)
                /\ ENABLED DminCall(s, t, o)
            /\ \A x \in Created :
                /\ ENABLED AddCall(s, x, o)
                /\ ENABLED SubCall(s, x, o)
                /\ ENABLED MultiplyCall(s, x, o)
                /\ ENABLED DotCall(s, x, o)
                /\ ENABLED MseCall(s, x, o)
                /\ ENABLED DmseCall(s, x, o)

\* An operation has returned while an event of its wait-list is not complete.
C9_Witness ==
    /\ OpCalled
    /\ call.status = "returned"
    /\ host = "idle"
    /\ \E e \in queue[call.token].wait : ~IsComplete(e)

\* C10 (as claimed): an operation either returns with its kernel enqueued and
\* the output's producer updated, or fails with no kernel enqueued.
C10_NoPartialFailure ==
    OpCalled =>
        \/ /\ call.status = "returned"
           /\ call.token = Len(queue)
           /\ GetEvent(call.out) = call.token
        \/ /\ call.status = "panicked"
           /\ call.token = 0

\* The Matrix get builds has the shape of the device matrix it read.
RetHasShapeOf(m) == ret.rows = mats[m].rows /\ ret.columns = mats[m].columns

\* C3 (as claimed): when get returns, the producer event is complete and the
\* Matrix returned has the matrix's shape and the contents the producer's
\* kernel wrote.
C3_GetReturnsKernelOutput ==
    GetReturned =>
        /\ IsComplete(call.token)
        /\ RetHasShapeOf(call.self)
        /\ ret.buffer = queue[call.token].res

\* C3 (amended): when get returns, the producer event is complete and the
\* Matrix returned has the matrix's shape; it holds the contents the producer's
\* kernel wrote unless set was called on the matrix after that kernel was
\* enqueued.
C3_GetReturnsAfterEvent ==
    GetReturned =>
        /\ IsComplete(call.token)
        /\ RetHasShapeOf(call.self)
        /\ ~queue[call.token].clobbered => ret.buffer = queue[call.token].res

C3_Witness ==
    /\ GetReturned
    /\ GetEvent(call.self) = call.token
    /\ ~queue[call.token].clobbered
    /\ ret.buffer = queue[call.token].res
    /\ ret.buffer # eager[1]

\* C4 (as claimed): get on an uploaded matrix that has no producer does not
\* fail and does not wait: it returns the matrix's shape and uploaded contents.
C4_GetOfUploadReturns ==
    (call.op = "get" /\ GetEvent(call.self) = 0) =>
        /\ call.status = "returned"
        /\ host = "idle"
        /\ RetHasShapeOf(call.self)
        /\ ret.buffer = buf[call.self]

\* Kernel i is an add or multiply whose inputs no kernel of the queue writes.
InputsNeverWritten(i) ==
    \A n \in 1..Len(queue) : queue[n].out \notin {queue[i].self, queue[i].other}

\* C5: get of the output of an add, whose inputs were uploaded and are written
\* by no kernel, returns self[p] + other[p] in every cell p, in the inputs'
\* shape.
C5_AddThenGet ==
    (/\ GetReturned
     /\ queue[call.token].fn = "add"
     /\ InputsNeverWritten(call.token)) =>
        LET k == queue[call.token]
        IN  /\ RetHasShapeOf(k.self)
            /\ Len(ret.buffer) = Len(buf[k.self])
            /\ \A p \in 1..Len(ret.buffer) :
                   ret.buffer[p] = buf[k.self][p] + buf[k.other][p]

C5_Witness ==
    /\ GetReturned
    /\ queue[call.token].fn = "add"
    /\ InputsNeverWritten(call.token)
    /\ queue[call.token].self = 1
    /\ queue[call.token].other = 2
    /\ queue[call.token].out = 3
    /\ ret.buffer = <<4, 3>>

\* The contents of other after self.add(other, c) and c.copy_to(other), on
\* contents a of self, b of other and c0 of a separate c.
AddThenCopy(k, a, b, c0) ==
    LET ka == [k EXCEPT !.op = "add", !.self = 1, !.other = 2, !.out = 3]
        c1 == KernelOut(ka, <<a, b, c0>>)
        kc == [k EXCEPT !.op = "copy_to", !.self = 3, !.other = 0, !.out = 2,
                        !.ws = <<Len(c1)>>]
    IN  KernelOut(kc, <<a, b, c1>>)

\* C6: add with its output being its second input returns, whether or not
\* that matrix has a producer; its kernel's token becomes the producer; the
\* kernel waits only on kernels enqueued before it; and once it ran the matrix
\* holds self + other in every cell, as add into a separate matrix followed by
\* copy_to would leave it.
C6_InPlaceAdd ==
    /\ (call.op = "add" /\ call.out = call.other) =>
           /\ call.status = "returned"
           /\ GetEvent(call.out) = call.token
    /\ \A i \in 1..Len(queue) :
           (queue[i].fn = "add" /\ queue[i].out = queue[i].other) =>
               /\ queue[i].wait \subseteq 1..(i - 1)
               /\ queue[i].st # "queued" =>
                      /\ Len(queue[i].res) = Len(queue[i].eb)
                      /\ \A p \in 1..Len(queue[i].res) :
                             queue[i].res[p] = queue[i].ea[p] + queue[i].eb[p]
                      /\ queue[i].res =
                             AddThenCopy(queue[i], queue[i].ea, queue[i].eb, queue[i].eb)

C6_Witness ==
    \E i \in 1..Len(queue) :
        /\ queue[i].fn = "add"
        /\ queue[i].out = queue[i].other
        /\ queue[i].self # queue[i].other
        /\ queue[i].wait # {}
        /\ queue[i].st # "queued"
        /\ buf[queue[i].out] = queue[i].res

\* C7: c = a + b and then d = c * a enqueued back to back: get of d returns
\* (a + b) * a in every cell, the result of evaluating the two operations one
\* after the other, whatever the device's progress was at each call.
ChainAt(i) ==
    /\ i > 1
    /\ queue[i - 1].fn = "add"
    /\ queue[i].fn = "multiply"
    /\ queue[i].self = queue[i - 1].out
    /\ queue[i].other = queue[i - 1].self
    /\ queue[i - 1].out \notin {queue[i - 1].self, queue[i - 1].other}

C7_ChainMatchesEager ==
    (GetReturned /\ ChainAt(call.token)) =>
        LET a == queue[call.token - 1].ea
            b == queue[call.token - 1].eb
        IN  /\ Len(ret.buffer) = Len(a)
            /\ \A p \in 1..Len(ret.buffer) : ret.buffer[p] = (a[p] + b[p]) * a[p]

C7_Witness ==
    /\ GetReturned
    /\ ChainAt(call.token)
    /\ queue[call.token].out \notin
           {queue[call.token].self, queue[call.token].other, queue[call.token - 1].other}
    /\ queue[call.token - 1].self # queue[call.token - 1].other

\* C11: set never waits (an idle host can call it on any matrix, whatever the
\* state of the matrix's producer), it leaves the producer as it was, and when
\* it was called while the producer's kernel had still to run, the buffer
\* holds what that kernel wrote once the kernel has run.
C11_SetNeitherWaitsNorTouchesProducer ==
    /\ (host = "idle" /\ nsets < MaxSets) =>
           \A m \in Created : \A matrix \in SetData(m) : ENABLED SetCall(m, matrix)
    /\ call.op = "set" =>
           /\ call.status = "returned"
           /\ GetEvent(call.self) = call.prev
           /\ (call.pend /\ queue[call.prev].st # "queued") =>
                  buf[call.self] = queue[call.prev].res

\* set was called while the producer's kernel was pending; the kernel then ran
\* and the buffer no longer holds what set wrote.
C11_Witness ==
    /\ call.op = "set"
    /\ call.pend
    /\ GetEvent(call.self) = call.prev
    /\ queue[call.prev].st # "queued"
    /\ buf[call.self] = queue[call.prev].res
    /\ buf[call.self] # eager[call.self]

\* An operation has named matrix m as its output: every kernel enqueued came
\* from such a call, and a call that failed before its enqueue is the last one.
NamedAsOutput(m) ==
    \/ \E i \in 1..Len(queue) : queue[i].out = m
    \/ OpCalled /\ call.out = m

\* C12 (as claimed): a matrix's producer is None exactly when no operation has
\* named the matrix as its output, and a producer that is set is the token of
\* a kernel that writes the matrix.
C12_ProducerNoneIffNeverOutput ==
    \A m \in Created :
        /\ GetEvent(m) = 0 <=> ~NamedAsOutput(m)
        /\ GetEvent(m) # 0 => queue[GetEvent(m)].out = m

\* C13 (as claimed): every operation call enqueues a kernel, whether or not
\* its inputs hold producers, and the kernel's wait-list is exactly the set of
\* producers its inputs held; the output's previous producer is in it only
\* when it is also an input's producer.
C13_WaitListIsInputsProducers ==
    OpCalled =>
        /\ call.token = Len(queue)
        /\ call.token # 0
        /\ queue[call.token].wait = queue[call.token].inEv
        /\ call.prev \in queue[call.token].wait => call.prev \in queue[call.token].inEv

\* Kernels i and j, i enqueued first, write the same matrix, and no kernel
\* enqueued after j writes it.
Overwrites(i, j) ==
    /\ i < j
    /\ queue[i].out = queue[j].out
    /\ \A n \in (j + 1)..Len(queue) : queue[n].out # queue[j].out

\* C14: of two operations with the same output, the first one's kernel has run
\* when the second one's runs; from then on the output holds the second
\* operation's result, the one synchronous evaluation gives, and a get of the
\* output waits for the second operation and returns that result.
C14_SecondWriteWins ==
    \A i \in 1..Len(queue), j \in 1..Len(queue) :
        Overwrites(i, j) =>
            /\ queue[j].st # "queued" =>
                   /\ queue[i].st # "queued"
                   /\ buf[queue[j].out] = queue[j].res
                   /\ buf[queue[j].out] = eager[queue[j].out]
            /\ (GetReturned /\ call.self = queue[j].out) =>
                   /\ call.token = j
                   /\ ret.buffer = queue[j].res

C14_Witness ==
    \E i \in 1..Len(queue), j \in 1..Len(queue) :
        /\ Overwrites(i, j)
        /\ GetReturned
        /\ call.self = queue[j].out
        /\ queue[j].out \notin {queue[j].self, queue[j].other}
        /\ queue[i].res # queue[j].res
        /\ ret.buffer = queue[j].res

\* C15: a step in which an operation returns appends one kernel to the queue,
\* keeps the kernels already there, and changes no field of any matrix but
\* the producer of the operation's output.
C15_OnlyOutputProducerChanges ==
    [][(call' # call /\ call'.op \in OpNames /\ call'.status = "returned") =>
          /\ Len(queue') = Len(queue) + 1
          /\ SubSeq(queue', 1, Len(queue)) = queue
          /\ Len(mats') = Len(mats)
          /\ \A m \in Created :
                 /\ mats'[m].rows = mats[m].rows
                 /\ mats'[m].columns = mats[m].columns
                 /\ m # call'.out => mats'[m].event = mats[m].event]_vars

\* An operation returned whose input, not its output, holds an earlier producer.
C15_Witness ==
    /\ OpCalled
    /\ call.status = "returned"
    /\ call.self # call.out
    /\ GetEvent(call.self) \notin {0, call.token}
    /\ GetEvent(call.out) = call.token

\* C16 (as claimed): the work size of an elementwise kernel is the length of
\* the output's buffer; of transpose, (self.rows, self.columns); of dot,
\* (self.rows, other.columns); of mse and dmse, self.columns.
C16_WorkSizeFromOutput ==
    \A i \in 1..Len(queue) :
        LET k == queue[i]
        IN  CASE k.fn \in ElementwiseOps -> k.ws = <<Len(buf[k.out])>>
              [] k.fn = "transpose"      -> k.ws = <<mats[k.self].rows, mats[k.self].columns>>
              [] k.fn = "dot"            -> k.ws = <<mats[k.self].rows, mats[k.other].columns>>
              [] OTHER                   -> k.ws = <<mats[k.self].columns>>

\* C16 (amended): the work size of an elementwise kernel is the length of
\* self's buffer, whatever the length of the output's; of transpose,
\* (self.rows, self.columns); of dot, (self.rows, other.columns); of mse and
\* dmse, self.columns.
C16_WorkSizeFromSelf ==
    \A i \in 1..Len(queue) :
        LET k == queue[i]
        IN  CASE k.fn \in ElementwiseOps -> k.ws = <<Len(buf[k.self])>>
              [] k.fn = "transpose"      -> k.ws = <<mats[k.self].rows, mats[k.self].columns>>
              [] k.fn = "dot"            -> k.ws = <<mats[k.self].rows, mats[k.other].columns>>
              [] OTHER                   -> k.ws = <<mats[k.self].columns>>

\* An elementwise kernel whose output is shorter than its work size.
C16_Witness ==
    \E i \in 1..Len(queue) :
        /\ queue[i].fn \in ElementwiseOps
        /\ queue[i].ws = <<Len(buf[queue[i].self])>>
        /\ Len(buf[queue[i].out]) < queue[i].ws[1]

\* The operands of the last call break the operation's shape contract:
\* buffers of different lengths, or for dot self.columns # other.rows.
Misshaped ==
    \/ Len(buf[call.out]) # Len(buf[call.self])
    \/ call.other # 0 /\ Len(buf[call.other]) # Len(buf[call.self])
    \/ call.op = "dot" /\ mats[call.self].columns # mats[call.other].rows

\* The last call failed for a reason that has nothing to do with shapes: a
\* one-input operation on a matrix without producer, or an output that is an
\* input holding a producer, outside add, dot, mse and dmse.
FailsWhateverTheShapes ==
    \/ call.op \notin BinaryOps /\ GetEvent(call.self) = 0
    \/ /\ call.op \notin {"add", "dot", "mse", "dmse"}
       /\ call.out \in {call.self, call.other}
       /\ call.prev # 0

\* C17: an operation's outcome does not depend on its operands' shapes: it
\* returns, with its kernel enqueued and the kernel's token as the output's
\* producer, for misshaped operands exactly when it does for well-shaped ones.
C17_ShapesNotValidated ==
    OpCalled =>
        /\ call.status = "returned" <=> ~FailsWhateverTheShapes
        /\ call.status = "returned" =>
               /\ call.token = Len(queue)
               /\ queue[call.token].out = call.out
               /\ GetEvent(call.out) = call.token

C17_Witness ==
    /\ OpCalled
    /\ call.op = "dot"
    /\ mats[call.self].columns # mats[call.other].rows
    /\ Len(buf[call.out]) # mats[call.self].rows * mats[call.other].columns
    /\ Misshaped
    /\ call.status = "returned"
    /\ GetEvent(call.out) = call.token

WritesAfterRead(i, j) ==
    /\ i < j
    /\ queue[j].out \in {queue[i].self, queue[i].other}

\* C19: a kernel that writes a matrix an earlier kernel reads has in its
\* wait-list its own inputs' producers and nothing else; it still never starts
\* before the earlier kernel has run, and the earlier kernel has read the
\* contents from before the overwrite.
C19_WriteAfterRead ==
    \A i \in 1..Len(queue), j \in 1..Len(queue) :
        WritesAfterRead(i, j) =>
            /\ queue[j].wait = queue[j].inEv
            /\ queue[j].st # "queued" =>
                   /\ queue[i].st # "queued"
                   /\ Len(queue[i].res) = Len(queue[i].ea)
                   /\ \A p \in 1..Len(queue[i].res) :
                          queue[i].res[p] =
                              Scalar(queue[i].fn, queue[i].ea[p], queue[i].eb[p], 0)

\* The writer ran without the reader's event in its wait-list, and what it
\* wrote differs from what the reader had read.
C19_Witness ==
    \E i \in 1..Len(queue), j \in 1..Len(queue) :
        /\ WritesAfterRead(i, j)
        /\ i \notin queue[j].wait
        /\ queue[j].st # "queued"
        /\ queue[j].out = queue[i].self
        /\ queue[j].out # queue[i].out
        /\ queue[j].res # queue[i].ea
====
